---- MODULE Spec2Model ----
(***************************************************************************)
(* State-machine model of the front end of the textbook library: the Home  *)
(* page (catalog refresh, ingest, delete), the Chat page (send, clear,     *)
(* context selection) and the useAuth hook, with the two backend services  *)
(* they call.  Every handler is split at its awaits: one action for the    *)
(* synchronous prefix that issues a request, one for the continuation that *)
(* runs when the request has been answered.                                *)
(*                                                                         *)
(* Conventions.  A JavaScript value that may be null is a sequence of      *)
(* length at most one: <<>> is null, <<v>> is v.  A text is a sequence of  *)
(* characters (the chat input) or of name parts (a file or book name).     *)
(***************************************************************************)
EXTENDS Integers, Sequences, FiniteSets, TLC

VARIABLES
    \* ---- browser
    route,               \* the route the router shows: "/" is Home, "/chat" is Chat
    localStorage,        \* the 'user_id' item: <<>> when absent, else <<token>>
    userId,              \* useAuth state of the mounted page ("" until the effect ran)
    effects,             \* the mount effects that have run
    storageFails,        \* the localStorage methods that throw in this browser
    identities,          \* history: the userId each run of the useAuth effect left
    \* ---- Chat page (Chat.jsx 14-18)
    messages, input, loading, collections, selectedCollection,
    \* ---- Home page (Home.jsx 14-18)
    books, booksLoading, isUploadModalOpen, uploading, selectedFile,
    \* ---- what the handlers show or log
    alerts,              \* the set of alert() texts shown so far
    console,             \* the console.error entries so far: <<label, failed request>>
    \* ---- asynchrony
    calls,               \* the handler invocations suspended at an await
    net,                 \* the requests in flight, each with its answer once given
    nCalls,              \* number of async invocations so far (gives call ids)
    nGestures,           \* number of handler invocations by the user so far
    \* ---- the two backend services
    srvCollections,      \* indexing service: names of the Collections
    srvProcessed,        \* processing service: names of the ProcessedBooks
    \* ---- history kept for the properties
    lastEvent,           \* the last step of an effect, a handler or the chat controls
    outcomes,            \* what each failed ingest / delete showed the user
    superseded           \* the refreshes in flight issued before one already applied,
                         \* with the listing that latest applied refresh returned

browserVars == <<route, localStorage, userId, effects, storageFails, identities>>
chatVars    == <<messages, input, loading, collections, selectedCollection>>
homeVars    == <<books, booksLoading, isUploadModalOpen, uploading, selectedFile>>
reportVars  == <<alerts, console>>
asyncVars   == <<calls, net, nCalls, nGestures>>
serverVars  == <<srvCollections, srvProcessed>>
ghostVars   == <<lastEvent, outcomes, superseded>>
vars == <<browserVars, chatVars, homeVars, reportVars, asyncVars, serverVars, ghostVars>>

----------------------------------------------------------------------------
(* Bounds and input domains *)

\* Handler invocations by the user (send, clear) per run of the Chat page.
MaxChatCalls == 2

\* Handler invocations by the user (upload, delete) per run of the Home page.
MaxHomeCalls == 2

\* Mounts of a page using useAuth (first load, reloads, restarts) per run.
MaxMounts == 3

Null == <<>>
Some(v) == <<v>>

\* Tokens Math.random() may yield in useAuth.
Tokens == {"user_k3x9", "user_p07q"}

\* Texts the user may type into the chat input.
Inputs == { <<>>, <<" ">>, <<"x">>, <<" ", "x">> }

Whitespace == {" "}

\* Files the user may pick, named by their parts.
Files == { [name |-> <<"b", ".pdf">>, size |-> 1] }

\* Files of every kind the user may pick for an ingest: a plain PDF, an
\* empty one, an upper-case extension, '.pdf' inside the name, no extension.
IngestFiles ==
    { [name |-> <<"physics", ".pdf">>, size |-> 1],
      [name |-> <<"physics", ".pdf">>, size |-> 0],
      [name |-> <<"b", ".PDF">>, size |-> 1],
      [name |-> <<"my", ".pdf", ".notes", ".pdf">>, size |-> 1],
      [name |-> <<"b">>, size |-> 1] }

\* Names a Collection or ProcessedBook may have.
BookNames == { <<"a">>, <<"b">> }

\* error.message of a rejected axios call: it names the failure, not the endpoint.
ErrorMessages == {"Network Error", "Request failed with status code 500"}

\* Bodies the agent may answer a chat turn with.
ChatReplies == { [response |-> <<"r1">>, artifacts |-> <<>>],
                 [response |-> <<"r2">>, artifacts |-> <<"artifact">>] }

----------------------------------------------------------------------------
(* Pure helpers *)

RECURSIVE TrimStart(_)
TrimStart(s) ==
    IF s = <<>> THEN <<>>
    ELSE IF Head(s) \in Whitespace THEN TrimStart(Tail(s)) ELSE s

RECURSIVE TrimEnd(_)
TrimEnd(s) ==
    IF s = <<>> THEN <<>>
    ELSE IF s[Len(s)] \in Whitespace THEN TrimEnd(SubSeq(s, 1, Len(s) - 1)) ELSE s

\* String.prototype.trim
Trim(s) == TrimEnd(TrimStart(s))

\* String.prototype.replace(part, ''): the first occurrence of part is removed.
RECURSIVE ReplaceFirst(_, _)
ReplaceFirst(s, part) ==
    IF s = <<>> THEN <<>>
    ELSE IF Head(s) = part THEN Tail(s)
    ELSE <<Head(s)>> \o ReplaceFirst(Tail(s), part)

\* The call with id i, and the request it is waiting for.
CallOf(i) == CHOOSE c \in calls : c.id = i
ReqOf(i)  == CHOOSE r \in net : r.call = i

----------------------------------------------------------------------------
(* The gateway client: one request per backend capability.  A request in   *)
(* flight is a record; the service fills in status and its answer.         *)

BlankReply == [response |-> <<>>, artifacts |-> <<>>]

Request(call, api) ==
    [call |-> call, api |-> api, user_id |-> "", session_id |-> "", query |-> <<>>,
     db_name |-> Null, name |-> <<>>, force_reindex |-> FALSE,
     status |-> "sent", error |-> "", listing |-> {}, reply |-> BlankReply]

\* agentService.chat(userId, sessionId, query, dbName = null)
agentService_chat_DropsDbName(call, uid, sessionId, query, dbName) ==
    [Request(call, "POST /agent/chat") EXCEPT
        !.user_id = uid, !.session_id = sessionId, !.query = query]
agentService_chat(call, uid, sessionId, query, dbName) ==
    [Request(call, "POST /agent/chat") EXCEPT
        !.user_id = uid, !.session_id = sessionId, !.query = query, !.db_name = dbName]

\* agentService.deleteSession(userId, sessionId)
agentService_deleteSession(call, uid, sessionId) ==
    [Request(call, "DELETE /agent/session") EXCEPT !.user_id = uid, !.session_id = sessionId]

\* pdfService.uploadPdf(file, userId)
pdfService_uploadPdf(call, file, uid) ==
    [Request(call, "POST /pdf/upload") EXCEPT !.name = file.name, !.user_id = uid]

\* pdfService.deleteProcessedBook(bookName, userId)
pdfService_deleteProcessedBook(call, bookName, uid) ==
    [Request(call, "DELETE /pdf/delete") EXCEPT !.name = bookName, !.user_id = uid]

\* embeddingService.indexBook(bookName, userId, forceReindex = false)
embeddingService_indexBook(call, bookName, uid) ==
    [Request(call, "POST /embedding/index-book") EXCEPT
        !.name = bookName, !.user_id = uid, !.force_reindex = FALSE]

\* embeddingService.listCollections()
embeddingService_listCollections(call) == Request(call, "GET /embedding/collections")

\* embeddingService.deleteCollection(collectionName)
embeddingService_deleteCollection(call, collectionName) ==
    [Request(call, "DELETE /embedding/collection") EXCEPT !.name = collectionName]

\* A suspended handler invocation: its id, handler, await, and what its closure holds.
Call(id, op, pc) ==
    [id |-> id, op |-> op, pc |-> pc, userId |-> userId, bookName |-> <<>>, fileName |-> <<>>]

Event(op, step) == [op |-> op, step |-> step]

----------------------------------------------------------------------------
(* The backend services *)

\* The processing service names a book after the uploaded file, extension dropped.
AssignedName(fileName) ==
    IF Len(fileName) > 1 THEN SubSeq(fileName, 1, Len(fileName) - 1) ELSE fileName

\* A service answers a request successfully, applying its effect.
ServerAnswer(r) ==
    /\ r \in net /\ r.status = "sent"
    /\ \/ /\ r.api = "POST /agent/chat"
          /\ \E a \in ChatReplies : net' = (net \ {r}) \cup {[r EXCEPT !.status = "ok", !.reply = a]}
          /\ UNCHANGED serverVars
       \/ /\ r.api = "DELETE /agent/session"
          /\ net' = (net \ {r}) \cup {[r EXCEPT !.status = "ok"]}
          /\ UNCHANGED serverVars
       \/ /\ r.api = "GET /embedding/collections"
          /\ net' = (net \ {r}) \cup {[r EXCEPT !.status = "ok", !.listing = srvCollections]}
          /\ UNCHANGED serverVars
       \/ /\ r.api = "POST /pdf/upload"
          /\ net' = (net \ {r}) \cup {[r EXCEPT !.status = "ok"]}
          /\ srvProcessed' = srvProcessed \cup {AssignedName(r.name)}
          /\ UNCHANGED srvCollections
       \/ /\ r.api = "POST /embedding/index-book"
          /\ r.name \in srvProcessed
          /\ net' = (net \ {r}) \cup {[r EXCEPT !.status = "ok"]}
          /\ srvCollections' = srvCollections \cup {r.name}
          /\ UNCHANGED srvProcessed
       \/ /\ r.api = "DELETE /embedding/collection"
          /\ net' = (net \ {r}) \cup {[r EXCEPT !.status = "ok"]}
          /\ srvCollections' = srvCollections \ {r.name}
          /\ UNCHANGED srvProcessed
       \/ /\ r.api = "DELETE /pdf/delete"
          /\ net' = (net \ {r}) \cup {[r EXCEPT !.status = "ok"]}
          /\ srvProcessed' = srvProcessed \ {r.name}
          /\ UNCHANGED srvCollections
    /\ UNCHANGED <<browserVars, chatVars, homeVars, reportVars, calls, nCalls, nGestures, ghostVars>>

\* A request fails (no response, or a non-success status): no effect on the service.
ServerReject(r) ==
    /\ r \in net /\ r.status = "sent"
    /\ \E m \in ErrorMessages : net' = (net \ {r}) \cup {[r EXCEPT !.status = "error", !.error = m]}
    /\ UNCHANGED <<browserVars, chatVars, homeVars, reportVars, calls, nCalls, nGestures, serverVars, ghostVars>>

Server == \E r \in net : ServerAnswer(r) \/ ServerReject(r)

----------------------------------------------------------------------------
(* useAuth (hooks/useAuth.js) *)

\* The methods of window.localStorage the effect uses.  Where storage is
\* unavailable (blocked, private mode, quota) the method throws.
StorageMethods == {"getItem", "setItem"}

\* The mount effect: read the stored id, generate and store one if there is
\* none.  It has no try/catch: a throwing storage method ends it before
\* setUserId is reached.
UseAuthEffect ==
    /\ "useAuth" \notin effects
    /\ effects' = effects \cup {"useAuth"}
    /\ IF "getItem" \in storageFails
       THEN /\ lastEvent' = Event("useAuth", "threw")
            /\ UNCHANGED <<localStorage, userId>>
       ELSE IF localStorage # Null
       THEN /\ userId' = localStorage[1]
            /\ lastEvent' = Event("useAuth", "effect")
            /\ UNCHANGED localStorage
       ELSE \E fresh \in Tokens :
               IF "setItem" \in storageFails
               THEN /\ lastEvent' = Event("useAuth", "threw")
                    /\ UNCHANGED <<localStorage, userId>>
               ELSE /\ localStorage' = Some(fresh)
                    /\ userId' = fresh
                    /\ lastEvent' = Event("useAuth", "generated")
    /\ identities' = Append(identities, userId')
    /\ UNCHANGED <<route, storageFails, chatVars, homeVars, reportVars, asyncVars, serverVars,
                   outcomes, superseded>>

\* The page is loaded again (reload, new tab session, restart): the state of
\* the hook starts over, what is in localStorage stays.
Remount ==
    /\ "useAuth" \in effects
    /\ Len(identities) < MaxMounts
    /\ effects' = {}
    /\ userId' = ""
    /\ lastEvent' = Event("mount", "rendered")
    /\ UNCHANGED <<route, localStorage, storageFails, identities, chatVars, homeVars, reportVars,
                   asyncVars, serverVars, outcomes, superseded>>

\* The user clears the site data of the browser.
ClearPersistence ==
    /\ localStorage # Null
    /\ localStorage' = Null
    /\ lastEvent' = Event("localStorage", "cleared")
    /\ UNCHANGED <<route, userId, effects, storageFails, identities, chatVars, homeVars, reportVars,
                   asyncVars, serverVars, outcomes, superseded>>

----------------------------------------------------------------------------
(* Chat page (pages/Chat.jsx) *)

SystemFailureMessage ==
    [role |-> "system", content |-> <<"Error: Failed to get response from agent.">>]

\* The mount effect loadCollections, up to its await.  Effects run in the order
\* of their hooks: useAuth() is called first (line 13).
LoadCollections ==
    /\ "useAuth" \in effects
    /\ "loadCollections" \notin effects
    /\ effects' = effects \cup {"loadCollections"}
    /\ nCalls' = nCalls + 1
    /\ calls' = calls \cup {Call(nCalls + 1, "loadCollections", "await listCollections")}
    /\ net' = net \cup {embeddingService_listCollections(nCalls + 1)}
    /\ lastEvent' = Event("loadCollections", "issued")
    /\ UNCHANGED <<route, localStorage, userId, storageFails, identities, chatVars, homeVars,
                   reportVars, nGestures, serverVars, outcomes, superseded>>

\* loadCollections after its await.
LoadCollectionsResume(c) ==
    /\ c \in calls /\ c.op = "loadCollections"
    /\ ReqOf(c.id).status # "sent"
    /\ LET r == ReqOf(c.id) IN
       /\ IF r.status = "ok"
          THEN /\ collections' = r.listing
               /\ UNCHANGED console
          ELSE /\ console' = console \cup {<<"Failed to load collections:", r.api>>}
               /\ UNCHANGED collections
       /\ net' = net \ {r}
    /\ calls' = calls \ {c}
    /\ lastEvent' = Event("loadCollections", "resumed")
    /\ UNCHANGED <<browserVars, messages, input, loading, selectedCollection, homeVars,
                   alerts, nCalls, nGestures, serverVars, outcomes, superseded>>

\* The chat form: the input and the submit button have disabled={loading}.
FormDisabled_Never(isLoading) == FALSE
FormDisabled(isLoading) == isLoading

\* onChange of the input, which is disabled while loading.
SetInput(text) ==
    /\ ~FormDisabled(loading)
    /\ text # input
    /\ input' = text
    /\ lastEvent' = Event("setInput", "typed")
    /\ UNCHANGED <<browserVars, messages, loading, collections, selectedCollection,
                   homeVars, reportVars, asyncVars, serverVars, outcomes, superseded>>

\* A click in the context sidebar: "All Books", or one of the loaded collections.
SetSelectedCollection(choice) ==
    /\ choice = Null \/ (Len(choice) = 1 /\ choice[1] \in collections)
    /\ choice # selectedCollection
    /\ selectedCollection' = choice
    /\ lastEvent' = Event("setSelectedCollection", "clicked")
    /\ UNCHANGED <<browserVars, messages, input, loading, collections,
                   homeVars, reportVars, asyncVars, serverVars, outcomes, superseded>>

\* The guard of handleSend: if (!input.trim() || !userId) return;
SendRejectedNoTrim(text, uid) == text = <<>> \/ uid = ""
SendRejected(text, uid) == Trim(text) = <<>> \/ uid = ""

\* handleSend up to its await.  The form cannot be submitted while loading.
HandleSend ==
    /\ ~FormDisabled(loading)
    /\ nGestures < MaxChatCalls
    /\ nGestures' = nGestures + 1
    /\ IF SendRejected(input, userId)
       THEN /\ lastEvent' = Event("handleSend", "rejected")
            /\ UNCHANGED <<messages, input, loading, calls, net, nCalls>>
       ELSE LET userMessage == [role |-> "user", content |-> input] IN
            /\ messages' = Append(messages, userMessage)
            /\ input' = <<>>
            /\ loading' = TRUE
            /\ nCalls' = nCalls + 1
            /\ calls' = calls \cup {Call(nCalls + 1, "handleSend", "await chat")}
            /\ net' = net \cup {agentService_chat(nCalls + 1, userId, userId,
                                                  userMessage.content, selectedCollection)}
            /\ lastEvent' = Event("handleSend", "accepted")
    /\ UNCHANGED <<browserVars, collections, selectedCollection, homeVars, reportVars,
                   serverVars, outcomes, superseded>>

\* The finally block of handleSend: setLoading(false).
SendFinally_KeepsLoading(wasLoading) == wasLoading
SendFinally(wasLoading) == FALSE

\* The requests the catch block of handleSend issues for the failed request:
\* none, the failure is noted and the turn is over.
SendCatchRequests_Resend(r) ==
    IF r.status = "error" THEN {[r EXCEPT !.status = "sent", !.error = ""]} ELSE {}
SendCatchRequests(r) == {}

\* handleSend after its await: the reply or the failure note, then finally.
HandleSendResume(c) ==
    /\ c \in calls /\ c.op = "handleSend"
    /\ ReqOf(c.id).status # "sent"
    /\ LET r == ReqOf(c.id) IN
       /\ IF r.status = "ok"
          THEN LET botMessage == [role |-> "assistant", content |-> r.reply.response,
                                  artifacts |-> r.reply.artifacts] IN
               /\ messages' = Append(messages, botMessage)
               /\ lastEvent' = Event("handleSend", "replied")
               /\ UNCHANGED console
          ELSE /\ console' = console \cup {<<"Chat failed:", r.api>>}
               /\ messages' = Append(messages, SystemFailureMessage)
               /\ lastEvent' = Event("handleSend", "failed")
       /\ net' = (net \ {r}) \cup SendCatchRequests(r)
    /\ loading' = SendFinally(loading)
    /\ calls' = calls \ {c}
    /\ UNCHANGED <<browserVars, input, collections, selectedCollection, homeVars,
                   alerts, nCalls, nGestures, serverVars, outcomes, superseded>>

\* handleClearSession up to its await; the user answers the confirm() either way.
HandleClearSession ==
    /\ nGestures < MaxChatCalls
    /\ nGestures' = nGestures + 1
    /\ \E confirmed \in BOOLEAN :
          IF ~confirmed
          THEN /\ lastEvent' = Event("handleClearSession", "declined")
               /\ UNCHANGED <<calls, net, nCalls>>
          ELSE /\ nCalls' = nCalls + 1
               /\ calls' = calls \cup {Call(nCalls + 1, "handleClearSession", "await deleteSession")}
               /\ net' = net \cup {agentService_deleteSession(nCalls + 1, userId, userId)}
               /\ lastEvent' = Event("handleClearSession", "issued")
    /\ UNCHANGED <<browserVars, chatVars, homeVars, reportVars, serverVars, outcomes, superseded>>

\* handleClearSession after its await.
HandleClearSessionResume(c) ==
    /\ c \in calls /\ c.op = "handleClearSession"
    /\ ReqOf(c.id).status # "sent"
    /\ LET r == ReqOf(c.id) IN
       /\ IF r.status = "ok"
          THEN /\ messages' = <<>>
               /\ lastEvent' = Event("handleClearSession", "cleared")
               /\ UNCHANGED console
          ELSE /\ console' = console \cup {<<"Failed to clear session:", r.api>>}
               /\ lastEvent' = Event("handleClearSession", "failed")
               /\ UNCHANGED messages
       /\ net' = net \ {r}
    /\ calls' = calls \ {c}
    /\ UNCHANGED <<browserVars, input, loading, collections, selectedCollection, homeVars,
                   alerts, nCalls, nGestures, serverVars, outcomes, superseded>>

----------------------------------------------------------------------------
(* Home page (pages/Home.jsx) *)

\* fetchBooks() up to its await, as called by the call with the given id.
FetchBooksCall(id) == Call(id, "fetchBooks", "await listCollections")

\* The mount effect: fetchBooks().
FetchBooksEffect ==
    /\ "useAuth" \in effects
    /\ "fetchBooks" \notin effects
    /\ effects' = effects \cup {"fetchBooks"}
    /\ booksLoading' = TRUE
    /\ nCalls' = nCalls + 1
    /\ calls' = calls \cup {FetchBooksCall(nCalls + 1)}
    /\ net' = net \cup {embeddingService_listCollections(nCalls + 1)}
    /\ lastEvent' = Event("fetchBooks", "issued")
    /\ UNCHANGED <<route, localStorage, userId, storageFails, identities, chatVars, books,
                   isUploadModalOpen, uploading, selectedFile, reportVars, nGestures,
                   serverVars, outcomes, superseded>>

\* History: which refreshes in flight are older than one already applied.
\* A refresh that resolves and is not itself superseded becomes the latest
\* applied one and supersedes every older refresh still in flight.
NoneSuperseded == [calls |-> {}, collections |-> {}]

Superseding(ids, listing) ==
    IF ids = {} THEN NoneSuperseded ELSE [calls |-> ids, collections |-> listing]

SupersededAfter(c, r) ==
    IF c.id \in superseded.calls \/ r.status # "ok"
    THEN Superseding(superseded.calls \ {c.id}, superseded.collections)
    ELSE Superseding({d.id : d \in {x \in calls : x.op = "fetchBooks" /\ x.id < c.id}},
                     r.listing)

\* fetchBooks after its await: setBooks(data.collections || []), then finally.
FetchBooksResume(c) ==
    /\ c \in calls /\ c.op = "fetchBooks"
    /\ ReqOf(c.id).status # "sent"
    /\ LET r == ReqOf(c.id) IN
       /\ IF r.status = "ok"
          THEN /\ books' = r.listing
               /\ lastEvent' = Event("fetchBooks", "listed")
               /\ UNCHANGED console
          ELSE /\ console' = console \cup {<<"Failed to fetch books:", r.api>>}
               /\ lastEvent' = Event("fetchBooks", "failed")
               /\ UNCHANGED books
       /\ superseded' = SupersededAfter(c, r)
       /\ net' = net \ {r}
    /\ booksLoading' = FALSE
    /\ calls' = calls \ {c}
    /\ UNCHANGED <<browserVars, chatVars, isUploadModalOpen, uploading, selectedFile,
                   alerts, nCalls, nGestures, serverVars, outcomes>>

\* The upload dialog while uploading: onClose is `!uploading && ...`, the
\* file input and the remove, Cancel and Upload buttons have disabled={uploading}.
DialogLocked_Never(isUploading) == FALSE
DialogLocked(isUploading) == isUploading

\* The "Upload PDF" buttons open the dialog; the dialog closes unless uploading.
SetIsUploadModalOpen(open) ==
    /\ open # isUploadModalOpen
    /\ ~open => ~DialogLocked(uploading)
    /\ isUploadModalOpen' = open
    /\ UNCHANGED <<browserVars, chatVars, books, booksLoading, uploading, selectedFile,
                   reportVars, asyncVars, serverVars, ghostVars>>

\* handleFileSelect, and the X that removes the chosen file; both are in the
\* dialog and disabled while uploading.
SetSelectedFile(choice) ==
    /\ isUploadModalOpen /\ ~DialogLocked(uploading)
    /\ choice # selectedFile
    /\ selectedFile' = choice
    /\ UNCHANGED <<browserVars, chatVars, books, booksLoading, isUploadModalOpen, uploading,
                   reportVars, asyncVars, serverVars, ghostVars>>

\* The guard of handleUpload: if (!selectedFile || !userId) return;
UploadRejected(file, uid) == file = Null \/ uid = ""

\* handleUpload up to its first await.  The button is in the dialog and
\* disabled while uploading.
HandleUpload ==
    /\ isUploadModalOpen /\ ~DialogLocked(uploading)
    /\ nGestures < MaxHomeCalls
    /\ nGestures' = nGestures + 1
    /\ IF UploadRejected(selectedFile, userId)
       THEN /\ lastEvent' = Event("handleUpload", "rejected")
            /\ UNCHANGED <<uploading, calls, net, nCalls>>
       ELSE /\ uploading' = TRUE
            /\ nCalls' = nCalls + 1
            /\ calls' = calls \cup
                 {[Call(nCalls + 1, "handleUpload", "await uploadPdf")
                     EXCEPT !.fileName = selectedFile[1].name]}
            /\ net' = net \cup {pdfService_uploadPdf(nCalls + 1, selectedFile[1], userId)}
            /\ lastEvent' = Event("handleUpload", "issued")
    /\ UNCHANGED <<browserVars, chatVars, books, booksLoading, isUploadModalOpen,
                   selectedFile, reportVars, serverVars, outcomes, superseded>>

\* The catch block of handleUpload: alert('Upload failed: ' + error.message).
UploadAlert(r) == <<"Upload failed: ", r.error>>

\* handleUpload after an await that rejected: catch, then finally.
HandleUploadCatch(c, r, failedAt) ==
    /\ console' = console \cup {<<"Upload failed:", r.api>>}
    /\ alerts' = alerts \cup {UploadAlert(r)}
    /\ outcomes' = outcomes \cup
         {[op |-> "ingest", failedAt |-> failedAt, shown |-> Some(UploadAlert(r))]}
    /\ uploading' = FALSE
    /\ calls' = calls \ {c}
    /\ net' = net \ {r}
    /\ lastEvent' = Event("handleUpload", "failed")
    /\ UNCHANGED <<browserVars, chatVars, books, booksLoading, isUploadModalOpen,
                   selectedFile, nCalls, nGestures, serverVars, superseded>>

\* await pdfService.uploadPdf(...) inside the try block: the statements after
\* it run only if it resolved.
UploadProceeds_Regardless(status) == TRUE
UploadProceeds(status) == status = "ok"

\* handleUpload after await uploadPdf.
HandleUploadResumeUpload(c) ==
    /\ c \in calls /\ c.op = "handleUpload" /\ c.pc = "await uploadPdf"
    /\ ReqOf(c.id).status # "sent"
    /\ LET r == ReqOf(c.id) IN
       IF UploadProceeds(r.status)
       THEN LET bookName == ReplaceFirst(c.fileName, ".pdf") IN
            /\ calls' = (calls \ {c}) \cup
                 {[c EXCEPT !.pc = "await indexBook", !.bookName = bookName]}
            /\ net' = (net \ {r}) \cup {embeddingService_indexBook(c.id, bookName, c.userId)}
            /\ lastEvent' = Event("handleUpload", "uploaded")
            /\ UNCHANGED <<browserVars, chatVars, homeVars, reportVars, nCalls, nGestures,
                           serverVars, outcomes, superseded>>
       ELSE HandleUploadCatch(c, r, "upload")

\* handleUpload after await indexBook.
HandleUploadResumeIndex(c) ==
    /\ c \in calls /\ c.op = "handleUpload" /\ c.pc = "await indexBook"
    /\ ReqOf(c.id).status # "sent"
    /\ LET r == ReqOf(c.id) IN
       IF r.status = "ok"
       THEN /\ isUploadModalOpen' = FALSE
            /\ selectedFile' = Null
            /\ booksLoading' = TRUE
            /\ nCalls' = nCalls + 1
            /\ calls' = (calls \ {c}) \cup {FetchBooksCall(nCalls + 1)}
            /\ net' = (net \ {r}) \cup {embeddingService_listCollections(nCalls + 1)}
            /\ uploading' = FALSE
            /\ lastEvent' = Event("handleUpload", "indexed")
            /\ UNCHANGED <<browserVars, chatVars, books, reportVars, nGestures, serverVars,
                           outcomes, superseded>>
       ELSE HandleUploadCatch(c, r, "index")

\* handleDelete up to its first await: a click on the card of a listed book
\* (the cards show when not loading); the user answers the confirm() either way.
HandleDelete(bookName) ==
    /\ ~booksLoading /\ bookName \in books
    /\ nGestures < MaxHomeCalls
    /\ nGestures' = nGestures + 1
    /\ \E confirmed \in BOOLEAN :
          IF ~confirmed
          THEN /\ lastEvent' = Event("handleDelete", "declined")
               /\ UNCHANGED <<calls, net, nCalls>>
          ELSE /\ nCalls' = nCalls + 1
               /\ calls' = calls \cup
                    {[Call(nCalls + 1, "handleDelete", "await deleteCollection")
                        EXCEPT !.bookName = bookName]}
               /\ net' = net \cup {embeddingService_deleteCollection(nCalls + 1, bookName)}
               /\ lastEvent' = Event("handleDelete", "issued")
    /\ UNCHANGED <<browserVars, chatVars, homeVars, reportVars, serverVars, outcomes, superseded>>

\* An await inside the try block: what follows it runs only if it resolved.
DeleteProceeds_Regardless(status) == TRUE
DeleteProceeds(status) == status = "ok"

\* The catch block of handleDelete: console.error only.
HandleDeleteCatch(c, r, failedAt) ==
    /\ console' = console \cup {<<"Delete failed:", r.api>>}
    /\ outcomes' = outcomes \cup {[op |-> "delete", failedAt |-> failedAt, shown |-> Null]}
    /\ calls' = calls \ {c}
    /\ net' = net \ {r}
    /\ lastEvent' = Event("handleDelete", "failed")
    /\ UNCHANGED <<browserVars, chatVars, homeVars, alerts, nCalls, nGestures, serverVars,
                   superseded>>

\* handleDelete after await deleteCollection.
HandleDeleteResumeCollection(c) ==
    /\ c \in calls /\ c.op = "handleDelete" /\ c.pc = "await deleteCollection"
    /\ ReqOf(c.id).status # "sent"
    /\ LET r == ReqOf(c.id) IN
       IF DeleteProceeds(r.status)
       THEN /\ calls' = (calls \ {c}) \cup {[c EXCEPT !.pc = "await deleteProcessedBook"]}
            /\ net' = (net \ {r}) \cup
                 {pdfService_deleteProcessedBook(c.id, c.bookName, c.userId)}
            /\ lastEvent' = Event("handleDelete", "collection deleted")
            /\ UNCHANGED <<browserVars, chatVars, homeVars, reportVars, nCalls, nGestures,
                           serverVars, outcomes, superseded>>
       ELSE HandleDeleteCatch(c, r, "collection")

\* handleDelete after await deleteProcessedBook.
HandleDeleteResumeProcessed(c) ==
    /\ c \in calls /\ c.op = "handleDelete" /\ c.pc = "await deleteProcessedBook"
    /\ ReqOf(c.id).status # "sent"
    /\ LET r == ReqOf(c.id) IN
       IF r.status = "ok"
       THEN /\ booksLoading' = TRUE
            /\ nCalls' = nCalls + 1
            /\ calls' = (calls \ {c}) \cup {FetchBooksCall(nCalls + 1)}
            /\ net' = (net \ {r}) \cup {embeddingService_listCollections(nCalls + 1)}
            /\ lastEvent' = Event("handleDelete", "deleted")
            /\ UNCHANGED <<browserVars, chatVars, books, isUploadModalOpen, uploading,
                           selectedFile, reportVars, nGestures, serverVars, outcomes, superseded>>
       ELSE HandleDeleteCatch(c, r, "processed")

----------------------------------------------------------------------------
(* Specifications *)

InitCommon ==
    /\ userId = ""
    /\ effects = {}
    /\ identities = <<>>
    /\ messages = <<>> /\ input = <<>> /\ loading = FALSE
    /\ collections = {} /\ selectedCollection = Null
    /\ books = {} /\ booksLoading = TRUE /\ isUploadModalOpen = FALSE
    /\ uploading = FALSE /\ selectedFile = Null
    /\ alerts = {} /\ console = {}
    /\ calls = {} /\ net = {} /\ nCalls = 0 /\ nGestures = 0
    /\ lastEvent = Event("mount", "rendered")
    /\ outcomes = {}
    /\ superseded = NoneSuperseded

\* The Chat page, mounted by a returning user; one book is processed and indexed.
InitChat ==
    /\ InitCommon
    /\ route = "/chat"
    /\ localStorage = Some("user_k3x9")
    /\ storageFails = {}
    /\ srvProcessed = {<<"a">>}
    /\ srvCollections = {<<"a">>}

NextChat ==
    \/ UseAuthEffect
    \/ LoadCollections
    \/ \E c \in calls : LoadCollectionsResume(c)
    \/ \E text \in Inputs : SetInput(text)
    \/ \E choice \in {Null} \cup {Some(n) : n \in BookNames} : SetSelectedCollection(choice)
    \/ HandleSend
    \/ \E c \in calls : HandleSendResume(c)
    \/ HandleClearSession
    \/ \E c \in calls : HandleClearSessionResume(c)
    \/ Server

SpecChat == InitChat /\ [][NextChat]_vars

\* The Home page, mounted by a returning user; one book is processed and indexed.
InitHome ==
    /\ InitCommon
    /\ route = "/"
    /\ localStorage = Some("user_k3x9")
    /\ storageFails = {}
    /\ srvProcessed = {<<"a">>}
    /\ srvCollections = {<<"a">>}

NextHome ==
    \/ UseAuthEffect
    \/ FetchBooksEffect
    \/ \E c \in calls : FetchBooksResume(c)
    \/ \E open \in BOOLEAN : SetIsUploadModalOpen(open)
    \/ \E choice \in {Null} \cup {Some(f) : f \in Files} : SetSelectedFile(choice)
    \/ HandleUpload
    \/ \E c \in calls : HandleUploadResumeUpload(c)
    \/ \E c \in calls : HandleUploadResumeIndex(c)
    \/ \E bookName \in BookNames : HandleDelete(bookName)
    \/ \E c \in calls : HandleDeleteResumeCollection(c)
    \/ \E c \in calls : HandleDeleteResumeProcessed(c)
    \/ Server

SpecHome == InitHome /\ [][NextHome]_vars

\* The application: the router shows the Home page or the Chat page.
InitPages == InitHome \/ InitChat

NextPages ==
    \/ (route = "/" /\ NextHome)
    \/ (route = "/chat" /\ NextChat)

SpecPages == InitPages /\ [][NextPages]_vars

\* The ingest of the Home page alone, over files of every kind, on an empty
\* library.
InitIngest ==
    /\ InitCommon
    /\ route = "/"
    /\ localStorage = Some("user_k3x9")
    /\ storageFails = {}
    /\ srvProcessed = {}
    /\ srvCollections = {}

NextIngest ==
    \/ UseAuthEffect
    \/ \E c \in calls : FetchBooksResume(c)
    \/ \E open \in BOOLEAN : SetIsUploadModalOpen(open)
    \/ \E choice \in {Null} \cup {Some(f) : f \in IngestFiles} : SetSelectedFile(choice)
    \/ HandleUpload
    \/ \E c \in calls : HandleUploadResumeUpload(c)
    \/ \E c \in calls : HandleUploadResumeIndex(c)
    \/ Server

SpecIngest == InitIngest /\ [][NextIngest]_vars

\* The useAuth hook alone, over mounts of a page: a first visit or a return,
\* in a browser whose storage works or throws.
InitAuth ==
    /\ InitCommon
    /\ route = "/"
    /\ localStorage \in {Null} \cup {Some(t) : t \in Tokens}
    /\ storageFails \in SUBSET StorageMethods
    /\ srvProcessed = {}
    /\ srvCollections = {}

NextAuth ==
    \/ UseAuthEffect
    \/ Remount
    \/ ClearPersistence

SpecAuth == InitAuth /\ [][NextAuth]_vars

----------------------------------------------------------------------------
(* Properties of the useAuth hook *)

\* A step in which the useAuth effect runs.
EffectRuns == "useAuth" \notin effects /\ "useAuth" \in effects'

\* While a token is stored, the effect yields that token and leaves it
\* stored; the stored item changes only by being cleared by the user or by
\* the effect storing a token it generated when none was stored.
StableWhileStored ==
    /\ (EffectRuns /\ localStorage # Null) =>
          (userId' = localStorage[1] /\ localStorage' = localStorage)
    /\ localStorage' # localStorage =>
          \/ (~EffectRuns /\ localStorage' = Null)
          \/ (EffectRuns /\ localStorage = Null /\ localStorage' = Some(userId') /\ userId' # "")

\* C11 (as claimed).  Where storage works: a stored token is what every
\* mount yields and it is never overwritten or regenerated; a token is
\* generated and stored only when none is stored; and the token generated
\* after the stored one was cleared differs from the identity before it.
C11_IdentityStable ==
    [][storageFails = {} =>
         /\ StableWhileStored
         /\ (EffectRuns /\ localStorage = Null /\ identities # <<>>) =>
               userId' # identities[Len(identities)]]_vars

\* C12 (as claimed).  Once the effect has run the page has a non-empty
\* identity, also where a storage method throws.
C12_IdentityNeverFails ==
    "useAuth" \in effects => userId # ""

----------------------------------------------------------------------------
(* Properties of the Chat page *)

\* The requests a step issues, and the calls a step resumes to their end.
Issued == {r \in net' : \A q \in net : ~(q.call = r.call /\ q.api = r.api)}
Ended(op) == {c \in calls : c.op = op /\ c \notin calls'}

IsBlank(text) == \A i \in 1..Len(text) : text[i] \in Whitespace

\* C6 (as claimed).  When the chat request of an accepted send(X) fails, the
\* transcript then ends with the user message X immediately followed by one
\* system-role failure message.
C6_FailedTurnKeepsUserMessage ==
    [][\A c \in Ended("handleSend") :
          ReqOf(c.id).status = "error" =>
             LET n == Len(messages') IN
             /\ n >= 2
             /\ messages'[n].role = "system"
             /\ messages'[n - 1] = [role |-> "user", content |-> ReqOf(c.id).query]]_vars

\* C7 (as claimed).  When a confirmed clear() resolves, with the session
\* delete answered or failed, the local transcript is empty; and it is not
\* emptied by the step that issues the delete.
C7_ClearEmptiesTranscript ==
    [][/\ \A c \in Ended("handleClearSession") : messages' = <<>>
       /\ (\E r \in Issued : r.api = "DELETE /agent/session") => messages' = messages]_vars

\* C8.  A chat request carries db_name equal to selectedCollection as it is
\* when send is invoked, and session_id equal to user_id equal to the user id;
\* a later change of selectedCollection alters neither a request in flight
\* nor the transcript.
C8_ContextScoping ==
    [][/\ \A r \in Issued :
             r.api = "POST /agent/chat" =>
                /\ r.db_name = selectedCollection
                /\ r.user_id = userId
                /\ r.session_id = r.user_id
       /\ selectedCollection' # selectedCollection =>
             /\ messages' = messages
             /\ \A r \in net : r.api = "POST /agent/chat" => r \in net']_vars

\* A chat request is in flight for collection "a" while the selection has
\* since been changed to none.
C8_Witness ==
    \E r \in net :
       /\ r.api = "POST /agent/chat" /\ r.status = "sent"
       /\ r.db_name = Some(<<"a">>)
       /\ selectedCollection = Null

\* C9.  handleSend invoked with an empty or whitespace-only input, or with
\* no user id yet, changes neither the transcript, the input, loading nor
\* the selected collection, and issues no request.
C9_RejectedSendIsNoOp ==
    [][(lastEvent'.op = "handleSend" /\ nGestures' # nGestures
        /\ (IsBlank(input) \/ userId = ""))
       => /\ messages' = messages
          /\ input' = input
          /\ loading' = loading
          /\ selectedCollection' = selectedCollection
          /\ net' = net
          /\ calls' = calls]_vars

\* handleSend has just returned early on a whitespace-only, non-empty input
\* with the identity available.
C9_Witness ==
    /\ lastEvent = Event("handleSend", "rejected")
    /\ input # <<>> /\ IsBlank(input)
    /\ userId # ""

\* The session state the page holds: the loading flag, nothing else.
SessionState == IF loading THEN "Sending" ELSE "Idle"

\* The nearest thing to an Error state: idle with the failure note last.
ClaimedState ==
    IF loading THEN "Sending"
    ELSE IF messages # <<>> /\ messages[Len(messages)].role = "system" THEN "Error"
    ELSE "Idle"

C16_OptimisticAppend ==
    [][/\ \A c \in calls :
             c.op = "handleSend" =>
                /\ loading
                /\ messages # <<>>
                /\ messages[Len(messages)] = [role |-> "user", content |-> ReqOf(c.id).query]
       /\ \A c \in Ended("handleSend") :
             ReqOf(c.id).status = "ok" =>
                messages' = Append(messages,
                                   [role |-> "assistant",
                                    content |-> ReqOf(c.id).reply.response,
                                    artifacts |-> ReqOf(c.id).reply.artifacts])
       /\ loading =>
             /\ Len(messages') >= Len(messages)
             /\ SubSeq(messages', 1, Len(messages)) = messages]_vars

\* C19 (as claimed).  In every transcript, under any interleaving of send
\* and clear, an assistant or system message comes right after a user
\* message: no reply stands first or follows another reply.
C19_NoOrphanReply ==
    \A i \in 1..Len(messages) :
       messages[i].role \in {"assistant", "system"} =>
          (i > 1 /\ messages[i - 1].role = "user")

\* The chat requests not yet taken by handleSend.
ChatRequests == {r \in net : r.api = "POST /agent/chat"}

\* C20.  At most one chat request is outstanding at any time, and loading is
\* true exactly while one is; a chat request is issued only in a step that
\* starts with loading false; and the turns do not interleave: a user
\* message is followed by a reply, never by another user message, and it is
\* the last message only while its send is in flight.
C20_OneChatRequestInFlight ==
    [][/\ Cardinality(ChatRequests) <= 1
       /\ loading <=> ChatRequests # {}
       /\ loading <=> (\E c \in calls : c.op = "handleSend")
       /\ (\E r \in Issued : r.api = "POST /agent/chat") => ~loading
       /\ \A i \in 1..Len(messages) :
             messages[i].role = "user" =>
                IF i < Len(messages) THEN messages[i + 1].role # "user" ELSE loading]_vars

\* The second turn is in flight: its user message follows the first turn's
\* user message and reply.
C20_Witness ==
    /\ loading
    /\ Cardinality(ChatRequests) = 1
    /\ Len(messages) = 3
    /\ messages[1].role = "user" /\ messages[2].role = "assistant" /\ messages[3].role = "user"

----------------------------------------------------------------------------
(* Properties of the Home page *)

\* C1 (as claimed).  An ingest whose upload succeeded and whose index-book
\* call failed shows the user an outcome that differs from what any ingest
\* whose upload itself failed shows.
C1_PartialIngestionDistinct ==
    \A o1, o2 \in outcomes :
       (o1.op = "ingest" /\ o1.failedAt = "index" /\ o2.op = "ingest" /\ o2.failedAt = "upload")
          => o1.shown # o2.shown

\* C2.  handleDelete issues the Collection delete first; it issues the
\* ProcessedBook delete only in the step that takes the successful answer of
\* its own Collection delete, for the same book; and when the Collection
\* delete failed the call ends there with nothing issued.
C2_DeleteOrder ==
    [][/\ \A c \in calls' :
             (c.op = "handleDelete" /\ \A d \in calls : d.id # c.id) =>
                \E r \in Issued : r.call = c.id /\ r.api = "DELETE /embedding/collection"
                                  /\ r.name = c.bookName
       /\ \A r \in Issued :
             r.api = "DELETE /pdf/delete" =>
                \E q \in net : /\ q.call = r.call /\ q \notin net'
                               /\ q.api = "DELETE /embedding/collection"
                               /\ q.status = "ok" /\ q.name = r.name
       /\ \A q \in net :
             (q.api = "DELETE /embedding/collection" /\ q.status = "error" /\ q \notin net') =>
                /\ \A r \in net' : r.call # q.call
                /\ \A c \in calls' : c.id # q.call]_vars

\* The ProcessedBook delete of a book is in flight, its Collection gone.
C2_Witness ==
    \E r \in net :
       /\ r.api = "DELETE /pdf/delete" /\ r.status = "sent"
       /\ r.name \notin srvCollections /\ r.name \in srvProcessed

\* C3 (as claimed).  A delete whose Collection delete succeeded and whose
\* ProcessedBook delete failed shows the user something, and something other
\* than what a delete whose Collection delete failed shows.
C3_PartialDeletionDistinct ==
    \A o1 \in outcomes :
       (o1.op = "delete" /\ o1.failedAt = "processed") =>
          /\ o1.shown # Null
          /\ \A o2 \in outcomes :
                (o2.op = "delete" /\ o2.failedAt = "collection") => o1.shown # o2.shown

\* C4 (as claimed).  Once the Collection delete of a delete has succeeded and
\* the Collection is gone, the book is off the displayed list or a refresh
\* is under way, while the ProcessedBook delete is pending.
C4_RemovedAfterCollectionDelete ==
    \A c \in calls :
       (c.op = "handleDelete" /\ c.pc = "await deleteProcessedBook"
        /\ c.bookName \notin srvCollections)
          => (c.bookName \notin books \/ \E f \in calls : f.op = "fetchBooks")

\* C5 (as claimed).  When every operation has completed and no refresh has
\* failed, the displayed list holds exactly the names of the Collections.
C5_CatalogMatchesCollections ==
    (/\ "fetchBooks" \in effects
     /\ calls = {}
     /\ <<"Failed to fetch books:", "GET /embedding/collections">> \notin console)
       => books = srvCollections

\* C13.  The index-book request of an ingest is issued only in the step that
\* takes the successful answer of the same call's upload request.  When the
\* upload failed, the call ends in that step with nothing issued, the
\* displayed list and the Collections as they were, the failure shown to the
\* user and uploading off.
C13_IndexOnlyAfterUpload ==
    [][/\ \A r \in Issued :
             r.api = "POST /embedding/index-book" =>
                \E q \in net : /\ q.call = r.call /\ q \notin net'
                               /\ q.api = "POST /pdf/upload" /\ q.status = "ok"
       /\ \A q \in net :
             (q.api = "POST /pdf/upload" /\ q.status = "error" /\ q \notin net') =>
                /\ \A r \in net' : r.call # q.call
                /\ \A c \in calls' : c.id # q.call
                /\ books' = books /\ srvCollections' = srvCollections
                /\ UploadAlert(q) \in alerts'
                /\ \E o \in outcomes' : o.op = "ingest" /\ o.failedAt = "upload"
                /\ ~uploading']_vars

\* One ingest has ended at its failed upload; the index-book request of a
\* second one, whose upload succeeded, is in flight.
C13_Witness ==
    /\ \E o \in outcomes : o.op = "ingest" /\ o.failedAt = "upload"
    /\ \E r \in net : r.api = "POST /embedding/index-book" /\ r.status = "sent"
    /\ \A r \in net : r.api # "POST /pdf/upload"

\* C14 (as claimed).  handleUpload invoked with no file selected, or with a
\* selected file of zero length, issues no request and suspends no call.
C14_IngestValidatesFile ==
    [][(lastEvent'.op = "handleUpload" /\ nGestures' # nGestures
        /\ (selectedFile = Null \/ selectedFile[1].size = 0))
       => (Issued = {} /\ calls' = calls /\ ~uploading')]_vars

\* C17 (as claimed).  The index-book request of an ingest names the book by
\* the uploaded file's name with its final extension stripped, for every
\* file name, and carries the user id of the upload with force_reindex false.
C17_BookNameIsNameWithoutExtension ==
    [][\A r \in Issued :
          r.api = "POST /embedding/index-book" =>
             \E q \in net : /\ q.call = r.call /\ q.api = "POST /pdf/upload"
                            /\ r.name = AssignedName(q.name)
                            /\ r.user_id = q.user_id
                            /\ r.force_reindex = FALSE]_vars

\* C15 (as claimed).  The step in which a handler takes the failed answer of
\* one of its requests ends the call (the failure is caught there), and it
\* shows the failure: an alert with the error's message is up, or what the
\* page displays (transcript, book list, collection list) has changed.
\* The loading flags do not count, they return to what they were before the
\* call; nor does console.error, which the page does not display.
C15_FailuresSurfaced ==
    [][\A r \in net :
          (r.status = "error" /\ r \notin net') =>
             /\ \A c \in calls' : c.id # r.call
             /\ \/ \E a \in alerts' : a[2] = r.error
                \/ <<messages, books, collections>>' # <<messages, books, collections>>]_vars

\* C21 (as claimed).  When refreshes overlap, then once the last of them has
\* resolved the displayed list is the listing returned to the latest-issued
\* refresh applied, also when an earlier-issued one resolved after it; a
\* refresh that fails leaves the displayed list as it was and turns loading
\* off.
C21_LatestRefreshWins ==
    [][/\ (/\ superseded.calls # {}
           /\ Ended("fetchBooks") # {}
           /\ \A c \in calls' : c.op # "fetchBooks")
             => books' = superseded.collections
       /\ \A c \in Ended("fetchBooks") :
             ReqOf(c.id).status = "error" => (books' = books /\ ~booksLoading')]_vars

----------------------------------------------------------------------------
(* Properties of both pages *)

\* The request a handler sends after the one before it was answered.
NextRequest ==
    { <<"POST /pdf/upload", "POST /embedding/index-book">>,
      <<"DELETE /embedding/collection", "DELETE /pdf/delete">> }

\* C18.  Nothing is retried.  A step issues at most one request per handler
\* invocation.  A request is either the first one of a new invocation, whose
\* id no earlier invocation had, or the second request of an ingest or a
\* delete, issued in the step that takes the successful answer of the first.
\* A request whose answer a handler has taken, a failure included, is not
\* sent again, and after a failure the invocation issues nothing more.
C18_NoAutomaticRetry ==
    [][/\ \A r \in Issued :
             /\ Cardinality({x \in Issued : x.call = r.call}) = 1
             /\ \/ /\ r.call > nCalls
                   /\ r.api \notin {p[2] : p \in NextRequest}
                \/ \E q \in net : /\ q.call = r.call /\ q \notin net' /\ q.status = "ok"
                                  /\ <<q.api, r.api>> \in NextRequest
       /\ \A q \in net :
             (q.status # "sent" /\ q \notin net') =>
                /\ \A r \in net' : ~(r.call = q.call /\ r.api = q.api)
                /\ q.status = "error" => \A r \in net' : r.call # q.call]_vars

\* A failed upload, a failed Collection delete, a failed chat request or a
\* failed session delete has been handled and nothing is in flight.
C18_Witness ==
    /\ lastEvent.step = "failed"
    /\ lastEvent.op \in {"handleUpload", "handleDelete", "handleSend", "handleClearSession"}
    /\ net = {}
    /\ nCalls >= 2

\* The ingests in flight, and those a step ends.
Ingests == {c \in calls : c.op = "handleUpload"}
IngestsEnded == {c \in Ingests : \A d \in calls' : d.id # c.id}

\* C23.  uploading is true exactly while an ingest is in flight, and at most
\* one is.  While it is true the selected file and the open dialog stay as
\* they are, except in the step that ends the ingest.  That step turns
\* uploading off; after index-book succeeded it closes the dialog and clears
\* the file, after a failure of either request the dialog is open with the
\* file of the ingest still selected.
C23_UploadingFlag ==
    [][/\ uploading <=> Ingests # {}
       /\ Cardinality(Ingests) <= 1
       /\ (uploading /\ IngestsEnded = {}) =>
             (selectedFile' = selectedFile /\ isUploadModalOpen' = isUploadModalOpen
              /\ isUploadModalOpen /\ selectedFile # Null /\ uploading')
       /\ \A c \in IngestsEnded :
             /\ ~uploading'
             /\ IF ReqOf(c.id).status = "ok"
                THEN /\ ReqOf(c.id).api = "POST /embedding/index-book"
                     /\ ~isUploadModalOpen' /\ selectedFile' = Null
                ELSE /\ isUploadModalOpen'
                     /\ selectedFile' # Null /\ selectedFile'[1].name = c.fileName
                     /\ selectedFile' = selectedFile]_vars

\* One ingest has ended in a failure, leaving the dialog open with its file;
\* a second ingest of that file is in flight at its index-book request.
C23_Witness ==
    /\ uploading /\ isUploadModalOpen /\ selectedFile # Null
    /\ \E o \in outcomes : o.op = "ingest"
    /\ \E c \in Ingests : c.pc = "await indexBook" /\ c.fileName = selectedFile[1].name

\* The requests that carry the user's id.
UserScoped ==
    { "POST /pdf/upload", "POST /embedding/index-book", "DELETE /pdf/delete",
      "POST /agent/chat", "DELETE /agent/session" }

\* C22 (as claimed).  No request that carries the user's id is issued while
\* the identity is not yet available: none goes out with an empty user_id.
C22_NoRequestWithoutIdentity ==
    \A r \in net : r.api \in UserScoped => r.user_id # ""

====
